---- MODULE Spec2Model ----
(***************************************************************************)
(* Run orchestration of prefect.server: the run store with row locks and   *)
(* transactions, the run lifecycle operations (create, update, delete) and *)
(* the orchestration engine set_flow_run_state, as driven by the request   *)
(* handlers of the REST API; and the handlers that bypass the run store,   *)
(* the scheduled-task websocket subscription and the history endpoint.     *)
(***************************************************************************)
EXTENDS Integers, Sequences, FiniteSets, TLC

(* ------------------------------------------------------------------ *)
(* Bounds and finite domains                                           *)
(* ------------------------------------------------------------------ *)

\* The wall clock reads 0 when the first request arrives and at most MaxClock
\* later; what exists before the first request is dated Before.
MaxClock == 1

\* Concurrent requests; a run created by request q gets the identity q.
Reqs == {"q1", "q2"}

NoReq == "none"

\* "r0" is a run that exists before any request arrives.
RunIds == {"r0"} \cup Reqs

\* An idempotency key stands for the pair (flow_id, idempotency_key).
NoKey == "nokey"

IdemKeys == {"k1", "k2"}

StateTypes == {"SCHEDULED", "RUNNING", "COMPLETED", "FAILED"}

NoType == "NONE"

ANY == StateTypes \cup {NoType}

\* The absent state (None).
Null == [id |-> <<"none", "none">>, type |-> NoType, ts |-> 0]

\* SetStateStatus
ACCEPT == "ACCEPT"

REJECT == "REJECT"

ABORT == "ABORT"

WAIT == "WAIT"

Max(a, b) == IF a >= b THEN a ELSE b

(* ------------------------------------------------------------------ *)
(* Policies and rules                                                  *)
(* ------------------------------------------------------------------ *)

\* A rule class: the (from, to) pairs it governs and what its setup does.
TrackRule ==
    [name |-> "TrackFailure", from |-> {"RUNNING"}, to |-> {"FAILED"}, act |-> "pass"]

RetryRule ==
    [name |-> "RetryFailed", from |-> {"RUNNING"}, to |-> {"FAILED"}, act |-> "reject_sub"]

WaitRule ==
    [name |-> "WaitForTurn", from |-> {"RUNNING"}, to |-> {"RUNNING"}, act |-> "wait"]

TerminalRule ==
    [name |-> "HandleTerminal", from |-> {"COMPLETED"}, to |-> {"COMPLETED", "FAILED"},
     act |-> "reject_null"]

ErrorRule ==
    [name |-> "FailingRule", from |-> {"COMPLETED"}, to |-> {"RUNNING"}, act |-> "error"]

TimestampRule ==
    [name |-> "SetRunStateTimestamp", from |-> ANY, to |-> ANY, act |-> "monotonic"]

EndTimeRule ==
    [name |-> "SetEndTime", from |-> ANY, to |-> {"COMPLETED", "FAILED"}, act |-> "pass"]

\* The kind-specific policy the API layer supplies.
CoreFlowPolicy == <<TrackRule, RetryRule, WaitRule, TerminalRule, ErrorRule>>

MinimalFlowPolicy == <<>>

GlobalFlowPolicy == <<TimestampRule, EndTimeRule>>

RECURSIVE FilterRules(_, _, _)
FilterRules(catalog, from, to) ==
    IF catalog = <<>> THEN <<>>
    ELSE LET r == Head(catalog)
             rest == FilterRules(Tail(catalog), from, to)
         IN IF from \in r.from /\ to \in r.to THEN <<r>> \o rest ELSE rest

\* policy.compile_transition_rules(from_type, to_type)
compile_transition_rules(policy, from, to) == FilterRules(policy, from, to)

(* ------------------------------------------------------------------ *)
(* State                                                               *)
(* ------------------------------------------------------------------ *)

VARIABLES
    clock,    \* pendulum.now("UTC")
    runs,     \* committed run rows
    states,   \* committed state rows of each run, oldest first
    lock,     \* holder of each run's row lock
    pc,       \* position of each request
    req,      \* inputs and locals of each request handler
    ctx,      \* the orchestration context of each request's attempt
    tx,       \* uncommitted writes of each request's transaction
    result,   \* what each request answered
    task_queues,  \* TaskQueue.for_key(key): the task runs waiting, per task key
    scheduled,    \* the task runs put on a queue so far
    sub,      \* the handler of each websocket subscription
    client,   \* the other end of each websocket
    hist      \* the task_run_history handler

\* The handlers of the API that do not go through the run store.
apivars == <<task_queues, scheduled, sub, client, hist>>

storevars == <<clock, runs, states, lock, pc, req, ctx, tx, result>>

vars == <<clock, runs, states, lock, pc, req, ctx, tx, result,
          task_queues, scheduled, sub, client, hist>>

NoRun == [exists |-> FALSE, key |-> NoKey, created |-> 0, state_id |-> Null.id, name |-> 0]

EmptyReq ==
    [op |-> "none", rid |-> "none", force |-> FALSE, policy |-> "none", key |-> NoKey,
     state |-> Null, apiNow |-> 0, now |-> 0, model |-> "none", attached |-> FALSE]

EmptyCtx ==
    [run |-> "none", initial_state |-> Null, proposed_state |-> Null,
     validated_state |-> Null, response_status |-> ACCEPT,
     orchestration_error |-> FALSE, force |-> FALSE,
     orchestration_rules |-> <<>>, global_rules |-> <<>>,
     entered |-> <<>>, exited |-> <<>>,
     validations |-> 0, notifications |-> 0, exc |-> "none", ret |-> "none"]

EmptyTx == [insert |-> FALSE, key |-> NoKey, created |-> 0, run |-> "none", state |-> Null]

\* What a request answered: a response or an error, the HTTP status, and for
\* the engine's callers the run, whether create attached a state to it, and
\* the result's status and state.
EmptyResult ==
    [op |-> "none", kind |-> "none", code |-> 0, error |-> "none", run |-> "none",
     attached |-> FALSE, engine |-> "none", initial |-> Null, status |-> "none",
     state |-> Null]

\* The state r0 is in when the first request arrives.
InitTypes == {"RUNNING", "COMPLETED"}

Before == 0 - 1

InitState(t) == [id |-> <<"r0", "init">>, type |-> t, ts |-> Before]

\* The run store and the request handlers when the first request arrives.
StoreInit ==
    /\ clock = 0
    /\ \E t \in InitTypes :
          /\ runs = [r \in RunIds |->
                        IF r = "r0"
                        THEN [exists |-> TRUE, key |-> "k1", created |-> Before,
                              state_id |-> IF t = NoType THEN Null.id ELSE InitState(t).id,
                              name |-> 0]
                        ELSE NoRun]
          /\ states = [r \in RunIds |->
                        IF r = "r0" /\ t /= NoType THEN <<InitState(t)>> ELSE <<>>]
    /\ lock = [r \in RunIds |-> NoReq]
    /\ pc = [p \in Reqs |-> "idle"]
    /\ req = [p \in Reqs |-> EmptyReq]
    /\ ctx = [p \in Reqs |-> EmptyCtx]
    /\ tx = [p \in Reqs |-> EmptyTx]
    /\ result = [p \in Reqs |-> EmptyResult]

\* The task runs that get scheduled.
MaxItems == 2

TaskRuns == 1..MaxItems

NoTask == 0

TaskKeys == {"a", "b"}

\* task_run.task_key
task_key(t) == IF t % 2 = 1 THEN "a" ELSE "b"

\* The websocket connections.
Subs == {"w1", "w2"}

EmptySub == [pc |-> "accept", task_keys |-> {}, task_run |-> NoTask]

\* The client of a connection: whether it is still there, the task runs it was
\* sent and has not acknowledged, and those it has acknowledged.
EmptyClient == [connected |-> TRUE, unacked |-> {}, acked |-> {}]

EmptyHist == [pc |-> "idle", interval |-> 0, sessions |-> 0, queries |-> 0, code |-> 0]

\* The queues are empty, no websocket is accepted, no history is asked for.
ApiInit ==
    /\ task_queues = [k \in TaskKeys |-> <<>>]
    /\ scheduled = {}
    /\ sub = [s \in Subs |-> EmptySub]
    /\ client = [s \in Subs |-> EmptyClient]
    /\ hist = EmptyHist

Init == StoreInit /\ ApiInit

\* Time passes.
Tick ==
    /\ clock < MaxClock
    /\ clock' = clock + 1
    /\ UNCHANGED <<runs, states, lock, pc, req, ctx, tx, result>>
    /\ UNCHANGED apivars

(* ------------------------------------------------------------------ *)
(* The run store as one transaction sees it                            *)
(* ------------------------------------------------------------------ *)

\* The rows of run r with the given id (a run points at its current state).
RowsWithId(rows, id) == {i \in 1..Len(rows) : rows[i].id = id}

\* run.state of the committed row
CurrentState(r) ==
    LET hits == RowsWithId(states[r], runs[r].state_id)
    IN IF runs[r].exists /\ hits /= {} THEN states[r][CHOOSE i \in hits : TRUE] ELSE Null

\* Request p sees the committed rows and its own uncommitted writes.
Visible(p, r) == runs[r].exists \/ (tx[p].insert /\ r = p)

RunView(p, r) ==
    IF runs[r].exists THEN runs[r]
    ELSE IF tx[p].insert /\ r = p
         THEN [exists |-> TRUE, key |-> tx[p].key, created |-> tx[p].created,
               state_id |-> Null.id, name |-> 0]
         ELSE NoRun

StateView(p, r) ==
    IF tx[p].state /= Null /\ tx[p].run = r THEN tx[p].state ELSE CurrentState(r)

\* SELECT ... FOR UPDATE waits while another transaction holds the row.
LockFree(p, r) == lock[r] \in {NoReq, p}

\* A plain SELECT never waits.
LockFreeNoForUpdate(p, r) == TRUE

\* One lock for the whole store.
GlobalLockFree(p, r) == \A x \in RunIds : LockFree(p, x)

\* read_flow_run(for_update=True) can return
CanReadForUpdate(p, r) == LockFree(p, r)

(* ------------------------------------------------------------------ *)
(* Orchestration context and rules                                     *)
(* ------------------------------------------------------------------ *)

\* A rule acts on a context whose proposed state is still the intended one.
RuleFires(c, to) ==
    /\ ~c.orchestration_error
    /\ c.proposed_state /= Null
    /\ c.proposed_state.type = to

\* rule.__aenter__: the setup of one rule, for the intended transition to type `to`.
BeforeTransition(rule, c, to, p, now) ==
    IF ~RuleFires(c, to) THEN c
    ELSE CASE rule.act = "pass" -> c
           [] rule.act = "monotonic" ->
                [c EXCEPT !.proposed_state.ts = Max(@, c.initial_state.ts)]
           [] rule.act = "reject_sub" ->
                [c EXCEPT !.proposed_state = [id |-> <<p, "substitute">>,
                                             type |-> "SCHEDULED", ts |-> now],
                          !.response_status = REJECT]
           [] rule.act = "reject_null" ->
                [c EXCEPT !.proposed_state = Null, !.response_status = REJECT]
           [] rule.act = "wait" ->
                [c EXCEPT !.proposed_state = Null, !.response_status = WAIT]
           [] rule.act = "error" ->
                [c EXCEPT !.proposed_state = Null, !.response_status = ABORT,
                          !.orchestration_error = TRUE]

\* context.validate_proposed_state(): the state row it writes (Null for none).
ValidatedState(c) ==
    IF ~c.orchestration_error /\ c.proposed_state /= Null THEN c.proposed_state ELSE Null

(* ------------------------------------------------------------------ *)
(* set_flow_run_state                                                  *)
(* ------------------------------------------------------------------ *)

\* The arguments the engine is called with: by the set_state handler, or by
\* create_flow_run (force=True, no policy).
EngineArgs(p) ==
    IF req[p].op = "create"
    THEN [rid |-> req[p].model, force |-> TRUE, policy |-> "none"]
    ELSE [rid |-> req[p].rid, force |-> req[p].force, policy |-> req[p].policy]

\* The supplied policy kept on a forced attempt.
SelectPolicyIgnoringForce(force, policy) ==
    IF policy = "none" THEN MinimalFlowPolicy ELSE CoreFlowPolicy

\* The minimal policy on a forced attempt only.
SelectPolicyOnlyWhenForced(force, policy) ==
    IF force THEN MinimalFlowPolicy ELSE CoreFlowPolicy

\* if force or flow_policy is None: flow_policy = MinimalFlowPolicy
SelectPolicy(force, policy) ==
    IF force \/ policy = "none" THEN MinimalFlowPolicy ELSE CoreFlowPolicy

\* A forced attempt that skips the global policy too.
NoGlobalRules(from, to) == <<>>

\* No transition compiles more rules than the two policies hold.
MaxChain == Len(CoreFlowPolicy) + Len(GlobalFlowPolicy)

Reverse(seq) == [i \in 1..Len(seq) |-> seq[Len(seq) + 1 - i]]

\* A compilation whose order depends on when it runs.
CompileGlobalRulesByClock(from, to) ==
    IF clock = 0 THEN compile_transition_rules(GlobalFlowPolicy, from, to)
    ELSE Reverse(compile_transition_rules(GlobalFlowPolicy, from, to))

\* GlobalFlowPolicy.compile_transition_rules(*intended_transition)
CompileGlobalRules(from, to) == compile_transition_rules(GlobalFlowPolicy, from, to)

RECURSIVE EnterRules(_, _, _, _, _)
\* for rule in ...: context = await stack.enter_async_context(rule(context, ...))
EnterRules(chain, c, to, p, now) ==
    IF chain = <<>> THEN c
    ELSE LET rule == Head(chain)
             d == BeforeTransition(rule, c, to, p, now)
         IN EnterRules(Tail(chain), [d EXCEPT !.entered = Append(@, rule.name)],
                       to, p, now)

\* The two loops swapped.
GlobalRulesFirst(c) == c.global_rules \o c.orchestration_rules

\* The order the scopes are entered in: the kind-specific rules, then the
\* global rules.
Chain(c) == c.orchestration_rules \o c.global_rules

\* The context after the two loops that enter the rules.
EnterAll(c, to, p, now) == EnterRules(Chain(c), c, to, p, now)

\* A validation inside and after the loops.
ValidateTwice(c) == [c EXCEPT !.validated_state = ValidatedState(c), !.validations = @ + 2]

\* await context.validate_proposed_state(), inside the innermost scope.
Validate(c) == [c EXCEPT !.validated_state = ValidatedState(c), !.validations = @ + 1]

\* A queue instead of a stack.
UnwindInEntryOrder(entered) == entered

\* The exit stack closes the entered scopes, last entered first.
Unwind(entered) == Reverse(entered)

\* A dispatch that does not look at the status.
NotifyOnAnyStatus(status) == TRUE

\* if result.status in (SetStateStatus.ACCEPT, SetStateStatus.REJECT)
ShouldNotify(status) == status \in {ACCEPT, REJECT}

\* An engine that returns the result of an aborted attempt.
RaisesNever(c) == FALSE

\* if context.orchestration_error is not None: raise
RaisesOrchestrationError(c) == c.orchestration_error

\* After the stack has unwound: the pending exception propagates, or the
\* orchestration error is raised, or the result is built and the
\* notifications are dispatched.
Finish(c) ==
    LET d == [c EXCEPT !.exited = Unwind(c.entered)]
    IN IF d.exc /= "none" THEN [d EXCEPT !.ret = "raised"]
       ELSE IF RaisesOrchestrationError(d)
       THEN [d EXCEPT !.exc = "OrchestrationError", !.ret = "raised"]
       ELSE [d EXCEPT !.ret = "result",
                      !.notifications =
                          IF ShouldNotify(d.response_status) THEN @ + 1 ELSE @]

\* Where set_flow_run_state leaves its caller.
AfterEngine(c) == IF c.ret = "raised" THEN "raise" ELSE "commit"

\* The rules run before the missing run is noticed.
RunNotFoundLate(p) ==
    /\ pc[p] = "sr_read"
    /\ ~Visible(p, EngineArgs(p).rid)
    /\ LET to == req[p].state.type
           c == [EmptyCtx EXCEPT !.proposed_state = req[p].state,
                                 !.global_rules = CompileGlobalRules(NoType, to)]
       IN ctx' = [ctx EXCEPT ![p] =
                     [Validate(EnterRules(c.global_rules, c, to, p, clock))
                         EXCEPT !.exc = "ObjectNotFoundError", !.ret = "raised"]]
    /\ pc' = [pc EXCEPT ![p] = "raise"]
    /\ UNCHANGED <<clock, runs, states, lock, req, tx, result>>
    /\ UNCHANGED apivars

\* The run does not exist: ObjectNotFoundError before anything else happens.
RunNotFound(p) ==
    /\ pc[p] = "sr_read"
    /\ ~Visible(p, EngineArgs(p).rid)
    /\ ctx' = [ctx EXCEPT ![p].exc = "ObjectNotFoundError", ![p].ret = "raised"]
    /\ pc' = [pc EXCEPT ![p] = "raise"]
    /\ UNCHANGED <<clock, runs, states, lock, req, tx, result>>
    /\ UNCHANGED apivars

\* The locked read of the run, the capture of its state and the compilation
\* of the rules.
ReadRun(p) ==
    /\ pc[p] = "sr_read"
    /\ LET a == EngineArgs(p)
           r == a.rid
           initial_state == StateView(p, r)
           from == initial_state.type
           to == req[p].state.type
       IN /\ Visible(p, r)
          /\ CanReadForUpdate(p, r)
          /\ lock' = [lock EXCEPT ![r] = p]
          /\ ctx' = [ctx EXCEPT ![p] =
                [EmptyCtx EXCEPT
                    !.run = r,
                    !.force = a.force,
                    !.initial_state = initial_state,
                    !.proposed_state = req[p].state,
                    !.orchestration_rules =
                        compile_transition_rules(SelectPolicy(a.force, a.policy), from, to),
                    !.global_rules = CompileGlobalRules(from, to)]]
    /\ pc' = [pc EXCEPT ![p] = "sr_rules"]
    /\ UNCHANGED <<clock, runs, states, req, tx, result>>
    /\ UNCHANGED apivars

\* The rules are entered, the proposed state is validated, the stack unwinds
\* and the attempt finishes.
Orchestrate(p) ==
    /\ pc[p] = "sr_rules"
    /\ LET c == Finish(Validate(EnterAll(ctx[p], req[p].state.type, p, clock)))
       IN /\ ctx' = [ctx EXCEPT ![p] = c]
          /\ tx' = IF c.validated_state = Null THEN tx
                   ELSE [tx EXCEPT ![p].state = c.validated_state, ![p].run = c.run]
          /\ pc' = [pc EXCEPT ![p] = AfterEngine(c)]
    /\ UNCHANGED <<clock, runs, states, lock, req, result>>
    /\ UNCHANGED apivars

\* The setup of the i-th rule raises (a storage error): the rules before it
\* are entered, it is not, and the exception unwinds the stack.
SetupRaises(p, i) ==
    /\ pc[p] = "sr_rules"
    /\ i \in 1..Len(Chain(ctx[p]))
    /\ LET c == EnterRules(SubSeq(Chain(ctx[p]), 1, i - 1), ctx[p],
                           req[p].state.type, p, clock)
           d == Finish([c EXCEPT !.exc = "StorageError"])
       IN /\ ctx' = [ctx EXCEPT ![p] = d]
          /\ pc' = [pc EXCEPT ![p] = AfterEngine(d)]
    /\ UNCHANGED <<clock, runs, states, lock, req, tx, result>>
    /\ UNCHANGED apivars

\* The write of the state row fails inside validate_proposed_state.
ValidateRaises(p) ==
    /\ pc[p] = "sr_rules"
    /\ LET c == EnterAll(ctx[p], req[p].state.type, p, clock)
           d == Finish([c EXCEPT !.exc = "StorageError", !.validations = @ + 1])
       IN /\ ValidatedState(c) /= Null
          /\ ctx' = [ctx EXCEPT ![p] = d]
          /\ pc' = [pc EXCEPT ![p] = AfterEngine(d)]
    /\ UNCHANGED <<clock, runs, states, lock, req, tx, result>>
    /\ UNCHANGED apivars

(* ------------------------------------------------------------------ *)
(* Transactions (db.session_context(begin_transaction=True))           *)
(* ------------------------------------------------------------------ *)

\* A transaction whose end leaves its row locks in place.
KeepLocks(p) == lock

\* Commit and rollback release the row locks of the transaction.
ReleaseLocks(p) == [r \in RunIds |-> IF lock[r] = p THEN NoReq ELSE lock[r]]

\* A new state row supersedes the current one, which stays in the history.
WriteState(rows, s) == Append(rows, s)

InsertedRuns(p) ==
    IF tx[p].insert
    THEN [runs EXCEPT ![p] = [exists |-> TRUE, key |-> tx[p].key,
                              created |-> tx[p].created, state_id |-> Null.id,
                              name |-> 0]]
    ELSE runs

\* The committed rows after the transaction of p commits.
CommittedRuns(p) ==
    IF tx[p].state /= Null
    THEN [InsertedRuns(p) EXCEPT ![tx[p].run].state_id = tx[p].state.id]
    ELSE InsertedRuns(p)

CommittedStates(p) ==
    IF tx[p].state /= Null
    THEN [states EXCEPT ![tx[p].run] = WriteState(@, tx[p].state)]
    ELSE states

\* A test of the timestamp alone.
SetStateCodeByTimestamp(state, now) == IF state.ts >= now THEN 201 ELSE 200

\* if orchestration_result.state and orchestration_result.state.timestamp >= now
SetStateCode(state, now) == IF state /= Null /\ state.ts >= now THEN 201 ELSE 200

\* if model.created >= now: response.status_code = status.HTTP_201_CREATED
CreateCode(created, now) == IF created >= now THEN 201 ELSE 200

ResponseCode(p) ==
    IF req[p].op = "create"
    THEN CreateCode(RunView(p, req[p].model).created, req[p].apiNow)
    ELSE SetStateCode(ctx[p].validated_state, req[p].apiNow)

\* The request is over: its locals are gone, its answer stays.
Answer(p, answer) ==
    /\ result' = [result EXCEPT ![p] = answer]
    /\ req' = [req EXCEPT ![p] = EmptyReq]
    /\ ctx' = [ctx EXCEPT ![p] = EmptyCtx]
    /\ tx' = [tx EXCEPT ![p] = EmptyTx]
    /\ pc' = [pc EXCEPT ![p] = "done"]

\* The run the request is about.
RunOf(p) == IF req[p].op = "create" THEN req[p].model ELSE req[p].rid

\* The handler leaves the session context normally: the transaction commits
\* and the response is built.
Commit(p) ==
    /\ pc[p] = "commit"
    /\ runs' = CommittedRuns(p)
    /\ states' = CommittedStates(p)
    /\ lock' = ReleaseLocks(p)
    /\ Answer(p, [op |-> req[p].op, kind |-> "returned", code |-> ResponseCode(p),
                  error |-> "none", run |-> RunOf(p), attached |-> req[p].attached,
                  engine |-> ctx[p].run, initial |-> ctx[p].initial_state,
                  status |-> IF ctx[p].ret = "result" THEN ctx[p].response_status
                             ELSE "none",
                  state |-> ctx[p].validated_state])
    /\ UNCHANGED clock
    /\ UNCHANGED apivars

\* The commit itself fails in the storage layer: everything is rolled back.
CommitFails(p) ==
    /\ pc[p] = "commit"
    /\ lock' = ReleaseLocks(p)
    /\ Answer(p, [EmptyResult EXCEPT !.op = req[p].op, !.kind = "raised", !.code = 500,
                                     !.error = "StorageError", !.run = RunOf(p),
                                     !.attached = req[p].attached,
                                     !.engine = ctx[p].run,
                                     !.initial = ctx[p].initial_state])
    /\ UNCHANGED <<clock, runs, states>>
    /\ UNCHANGED apivars

ErrorCode(exc) == IF exc = "ObjectNotFoundError" THEN 404 ELSE 500

\* An exception leaves the session context: the transaction rolls back.
Rollback(p) ==
    /\ pc[p] = "raise"
    /\ lock' = ReleaseLocks(p)
    /\ Answer(p, [EmptyResult EXCEPT !.op = req[p].op, !.kind = "raised",
                                     !.code = ErrorCode(ctx[p].exc),
                                     !.error = ctx[p].exc, !.run = RunOf(p),
                                     !.attached = req[p].attached,
                                     !.engine = ctx[p].run,
                                     !.initial = ctx[p].initial_state])
    /\ UNCHANGED <<clock, runs, states>>
    /\ UNCHANGED apivars

(* ------------------------------------------------------------------ *)
(* The set_state handler                                               *)
(* ------------------------------------------------------------------ *)

\* The (force, flow_policy) pairs requests come with.
Modes == {<<FALSE, "core">>, <<TRUE, "core">>, <<FALSE, "none">>}

\* The state types requests propose.
ProposedTypes == {"RUNNING", "COMPLETED", "FAILED"}

\* The run ids requests name: r0, and the run q1 creates if it creates one.
Targets == {"r0", "q1"}

\* now = pendulum.now("UTC"): a request to set run r to a state of type t.
StartSetState(p, r, t, force, policy) ==
    /\ pc[p] = "idle"
    /\ req' = [req EXCEPT ![p] =
                  [EmptyReq EXCEPT !.op = "set_state", !.rid = r, !.force = force,
                                   !.policy = policy, !.apiNow = clock,
                                   !.state = [id |-> <<p, "proposed">>,
                                              type |-> t, ts |-> 0]]]
    /\ pc' = [pc EXCEPT ![p] = "ss_parse"]
    /\ UNCHANGED <<clock, runs, states, lock, ctx, tx, result>>
    /\ UNCHANGED apivars

\* The session opens and State.parse_obj(state) stamps the proposed state.
ParseState(p) ==
    /\ pc[p] = "ss_parse"
    /\ req' = [req EXCEPT ![p].state.ts = clock]
    /\ pc' = [pc EXCEPT ![p] = "sr_read"]
    /\ UNCHANGED <<clock, runs, states, lock, ctx, tx, result>>
    /\ UNCHANGED apivars

(* ------------------------------------------------------------------ *)
(* create_flow_run and its handler                                     *)
(* ------------------------------------------------------------------ *)

CreateTypes == {NoType, "SCHEDULED"}

\* The handler hydrates the run and its state and notes the time.
StartCreate(p, k, t) ==
    /\ pc[p] = "idle"
    /\ req' = [req EXCEPT ![p] =
                  [EmptyReq EXCEPT !.op = "create", !.key = k, !.apiNow = clock,
                                   !.state = IF t = NoType THEN Null
                                             ELSE [id |-> <<p, "proposed">>,
                                                   type |-> t, ts |-> clock]]]
    /\ pc' = [pc EXCEPT ![p] = "cr_now"]
    /\ UNCHANGED <<clock, runs, states, lock, ctx, tx, result>>
    /\ UNCHANGED apivars

\* now = pendulum.now("UTC") in create_flow_run
CreateNow(p) ==
    /\ pc[p] = "cr_now"
    /\ req' = [req EXCEPT ![p].now = clock]
    /\ pc' = [pc EXCEPT ![p] = "cr_insert"]
    /\ UNCHANGED <<clock, runs, states, lock, ctx, tx, result>>
    /\ UNCHANGED apivars

\* A create that attaches the state to whatever run it read back.
CreatedByAnyCall(created, now, state) == state /= Null

\* A test that the row is younger than the call.
CreatedAfterNow(created, now, state) == created > now /\ state /= Null

\* if model.created == now and flow_run.state
CreatedByThisCall(created, now, state) == created = now /\ state /= Null

\* Where create_flow_run goes once it holds the model.
AfterModel(p, m, created) ==
    IF CreatedByThisCall(created, req[p].now, req[p].state)
    THEN /\ req' = [req EXCEPT ![p].model = m, ![p].attached = TRUE]
         /\ pc' = [pc EXCEPT ![p] = "sr_read"]
    ELSE /\ req' = [req EXCEPT ![p].model = m]
         /\ pc' = [pc EXCEPT ![p] = "commit"]

\* No idempotency key: the run is inserted directly.
CreateInsertDirect(p) ==
    /\ pc[p] = "cr_insert"
    /\ req[p].key = NoKey
    /\ tx' = [tx EXCEPT ![p].insert = TRUE, ![p].key = NoKey, ![p].created = req[p].now]
    /\ AfterModel(p, p, req[p].now)
    /\ UNCHANGED <<clock, runs, states, lock, ctx, result>>
    /\ UNCHANGED apivars

RunsWithKey(p, k) == {r \in RunIds : Visible(p, r) /\ RunView(p, r).key = k}

\* An uncommitted insert of the same key by another transaction makes the
\* insert wait on the unique index.
InsertBlocked(p, k) == \E q \in Reqs \ {p} : tx[q].insert /\ tx[q].key = k

\* INSERT ... ON CONFLICT DO NOTHING
CreateInsertIdempotent(p) ==
    /\ pc[p] = "cr_insert"
    /\ req[p].key /= NoKey
    /\ ~InsertBlocked(p, req[p].key)
    /\ tx' = IF RunsWithKey(p, req[p].key) = {}
             THEN [tx EXCEPT ![p].insert = TRUE, ![p].key = req[p].key,
                             ![p].created = req[p].now]
             ELSE tx
    /\ pc' = [pc EXCEPT ![p] = "cr_readback"]
    /\ UNCHANGED <<clock, runs, states, lock, req, ctx, result>>
    /\ UNCHANGED apivars

\* read the run to see if idempotency was applied or not
CreateReadBack(p) ==
    /\ pc[p] = "cr_readback"
    /\ RunsWithKey(p, req[p].key) /= {}
    /\ LET m == CHOOSE r \in RunsWithKey(p, req[p].key) : TRUE
       IN AfterModel(p, m, RunView(p, m).created)
    /\ UNCHANGED <<clock, runs, states, lock, ctx, tx, result>>
    /\ UNCHANGED apivars

\* The run found by the insert was deleted meanwhile: result.scalar() is
\* None and model.created raises.
CreateReadBackNone(p) ==
    /\ pc[p] = "cr_readback"
    /\ RunsWithKey(p, req[p].key) = {}
    /\ ctx' = [ctx EXCEPT ![p].exc = "AttributeError"]
    /\ pc' = [pc EXCEPT ![p] = "raise"]
    /\ UNCHANGED <<clock, runs, states, lock, req, tx, result>>
    /\ UNCHANGED apivars

(* ------------------------------------------------------------------ *)
(* update_flow_run, delete_flow_run and their handlers                 *)
(* ------------------------------------------------------------------ *)

\* A statement that reports a match whatever the id.
FoundAlways(r) == TRUE

\* result.rowcount > 0
Found(r) == runs[r].exists

FoundAnswer(op, r) ==
    [EmptyResult EXCEPT !.op = op, !.run = r,
                        !.kind = IF Found(r) THEN "returned" ELSE "raised",
                        !.code = IF Found(r) THEN 204 ELSE 404]

\* An update that also restamps the state rows of the run.
UpdateRunAndStates(p, r) ==
    /\ pc[p] = "idle"
    /\ LockFree(p, r)
    /\ runs' = IF Found(r) THEN [runs EXCEPT ![r].name = 1] ELSE runs
    /\ states' = [states EXCEPT ![r] = [i \in 1..Len(@) |-> [@[i] EXCEPT !.ts = clock]]]
    /\ Answer(p, FoundAnswer("update", r))
    /\ UNCHANGED <<clock, lock>>
    /\ UNCHANGED apivars

\* UPDATE of the fields of FlowRunUpdate; the state is none of them.
UpdateRun(p, r) ==
    /\ pc[p] = "idle"
    /\ LockFree(p, r)
    /\ runs' = IF Found(r) THEN [runs EXCEPT ![r].name = 1] ELSE runs
    /\ Answer(p, FoundAnswer("update", r))
    /\ UNCHANGED <<clock, states, lock>>
    /\ UNCHANGED apivars

\* DELETE of the run; its state rows go with it.
DeleteRun(p, r) ==
    /\ pc[p] = "idle"
    /\ LockFree(p, r)
    /\ runs' = IF Found(r) THEN [runs EXCEPT ![r] = NoRun] ELSE runs
    /\ states' = IF Found(r) THEN [states EXCEPT ![r] = <<>>] ELSE states
    /\ Answer(p, FoundAnswer("delete", r))
    /\ UNCHANGED <<clock, lock>>
    /\ UNCHANGED apivars

(* ------------------------------------------------------------------ *)
(* scheduled_task_subscription                                         *)
(* ------------------------------------------------------------------ *)

\* The task keys a subscription message names; none closes the socket.
KeySets == {{}, {"a"}, {"a", "b"}}

\* A scheduled task run is put on the queue of its key.
Enqueue(t) ==
    /\ t \notin scheduled
    /\ scheduled' = scheduled \cup {t}
    /\ task_queues' = [task_queues EXCEPT ![task_key(t)] = Append(@, t)]
    /\ UNCHANGED <<sub, client, hist>>
    /\ UNCHANGED storevars

\* websocket = await subscriptions.accept_prefect_socket(websocket)
AcceptSocket(s) ==
    /\ sub[s].pc = "accept"
    /\ sub' = [sub EXCEPT ![s].pc = "subscribe"]
    /\ UNCHANGED <<task_queues, scheduled, client, hist>>
    /\ UNCHANGED storevars

\* if not websocket: return
AcceptRefused(s) ==
    /\ sub[s].pc = "accept"
    /\ sub' = [sub EXCEPT ![s].pc = "closed"]
    /\ UNCHANGED <<task_queues, scheduled, client, hist>>
    /\ UNCHANGED storevars

\* subscription = await websocket.receive_json(); no keys closes the socket.
Subscribe(s, keys) ==
    /\ sub[s].pc = "subscribe"
    /\ sub' = [sub EXCEPT ![s].task_keys = keys,
                          ![s].pc = IF keys = {} THEN "closed" ELSE "get"]
    /\ UNCHANGED <<task_queues, scheduled, client, hist>>
    /\ UNCHANGED storevars

\* The client is gone before it subscribes.
SubscribeDisconnect(s) ==
    /\ sub[s].pc = "subscribe"
    /\ sub' = [sub EXCEPT ![s].pc = "closed"]
    /\ client' = [client EXCEPT ![s].connected = FALSE]
    /\ UNCHANGED <<task_queues, scheduled, hist>>
    /\ UNCHANGED storevars

\* task_run = await subscribed_queue.get(): the next task run of one of the
\* subscribed keys, removed from its queue.
Get(s, k) ==
    /\ sub[s].pc = "get"
    /\ k \in sub[s].task_keys
    /\ task_queues[k] /= <<>>
    /\ sub' = [sub EXCEPT ![s].task_run = Head(task_queues[k]), ![s].pc = "send"]
    /\ task_queues' = [task_queues EXCEPT ![k] = Tail(@)]
    /\ UNCHANGED <<scheduled, client, hist>>
    /\ UNCHANGED storevars

\* A handler that pushes the next task run without waiting for a reply.
AfterSendNoAck(s) == "get"

\* acknowledgement = await websocket.receive_json() follows the send.
AfterSend(s) == "receive"

\* await websocket.send_json(task_run.dict(json_compatible=True))
Send(s) ==
    /\ sub[s].pc = "send"
    /\ client' = [client EXCEPT ![s].unacked = @ \cup {sub[s].task_run}]
    /\ sub' = [sub EXCEPT ![s].pc = AfterSend(s)]
    /\ UNCHANGED <<task_queues, scheduled, hist>>
    /\ UNCHANGED storevars

\* The queue with t put back at position i.
PutBack(queue, t, i) == SubSeq(queue, 1, i) \o <<t>> \o SubSeq(queue, i + 1, Len(queue))

\* A disconnect that only ends the handler.
RetryDropped(queues, t, i) == queues

\* await TaskQueue.for_key(task_run.task_key).retry(task_run)
Retry(queues, t, i) == [queues EXCEPT ![task_key(t)] = PutBack(@, t, i)]

\* except subscriptions.NORMAL_DISCONNECT_EXCEPTIONS, while sending or while
\* awaiting the acknowledgement: the task run is retried and the handler ends.
Disconnect(s) ==
    /\ sub[s].pc \in {"send", "receive"}
    /\ \E i \in 0..Len(task_queues[task_key(sub[s].task_run)]) :
          task_queues' = Retry(task_queues, sub[s].task_run, i)
    /\ sub' = [sub EXCEPT ![s].pc = "closed"]
    /\ client' = [client EXCEPT ![s].connected = FALSE]
    /\ UNCHANGED <<scheduled, hist>>
    /\ UNCHANGED storevars

\* The client replies {"type": "ack"}: the loop goes on to the next task run.
ReceiveAck(s) ==
    /\ sub[s].pc = "receive"
    /\ client' = [client EXCEPT ![s].acked = @ \cup client[s].unacked,
                                ![s].unacked = {}]
    /\ sub' = [sub EXCEPT ![s].pc = "get"]
    /\ UNCHANGED <<task_queues, scheduled, hist>>
    /\ UNCHANGED storevars

\* if acknowledgement.get("type") != "ack": return await websocket.close()
ReceiveOther(s) ==
    /\ sub[s].pc = "receive"
    /\ sub' = [sub EXCEPT ![s].pc = "closed"]
    /\ UNCHANGED <<task_queues, scheduled, client, hist>>
    /\ UNCHANGED storevars

(* ------------------------------------------------------------------ *)
(* task_run_history                                                    *)
(* ------------------------------------------------------------------ *)

\* datetime.timedelta(seconds=1), in milliseconds
OneSecond == 1000

\* The history intervals requests come with, in milliseconds.
Intervals == {0, 500, 999, 1000, 1500}

\* A check that only refuses an empty interval.
IntervalNotPositive(interval) == interval <= 0

\* if history_interval < datetime.timedelta(seconds=1)
IntervalTooShort(interval) == interval < OneSecond

\* A request for the history with the given interval arrives.
StartHistory(i) ==
    /\ hist.pc \in {"idle", "done"}
    /\ hist' = [EmptyHist EXCEPT !.pc = "check", !.interval = i]
    /\ UNCHANGED <<task_queues, scheduled, sub, client>>
    /\ UNCHANGED storevars

\* raise HTTPException(status.HTTP_422_UNPROCESSABLE_ENTITY, ...)
HistoryInvalid ==
    /\ hist.pc = "check"
    /\ IntervalTooShort(hist.interval)
    /\ hist' = [hist EXCEPT !.pc = "done", !.code = 422]
    /\ UNCHANGED <<task_queues, scheduled, sub, client>>
    /\ UNCHANGED storevars

\* async with db.session_context() as session
HistoryOpenSession ==
    /\ hist.pc = "check"
    /\ ~IntervalTooShort(hist.interval)
    /\ hist' = [hist EXCEPT !.pc = "query", !.sessions = @ + 1]
    /\ UNCHANGED <<task_queues, scheduled, sub, client>>
    /\ UNCHANGED storevars

\* return await run_history(session=session, run_type="task_run", ...)
HistoryQuery ==
    /\ hist.pc = "query"
    /\ hist' = [hist EXCEPT !.pc = "done", !.queries = @ + 1, !.code = 200]
    /\ UNCHANGED <<task_queues, scheduled, sub, client>>
    /\ UNCHANGED storevars

(* ------------------------------------------------------------------ *)
(* Specification                                                       *)
(* ------------------------------------------------------------------ *)

Next ==
    \/ Tick
    \/ \E p \in Reqs :
        \/ \E r \in Targets, t \in ProposedTypes, m \in Modes :
              StartSetState(p, r, t, m[1], m[2])
        \/ ParseState(p)
        \/ RunNotFound(p)
        \/ ReadRun(p)
        \/ Orchestrate(p)
        \/ \E i \in 1..MaxChain : SetupRaises(p, i)
        \/ ValidateRaises(p)
        \/ Commit(p)
        \/ CommitFails(p)
        \/ Rollback(p)
        \/ \E k \in IdemKeys \cup {NoKey}, t \in CreateTypes : StartCreate(p, k, t)
        \/ CreateNow(p)
        \/ CreateInsertDirect(p)
        \/ CreateInsertIdempotent(p)
        \/ CreateReadBack(p)
        \/ CreateReadBackNone(p)
        \/ \E r \in Targets : UpdateRun(p, r)
        \/ \E r \in Targets : DeleteRun(p, r)

Spec == Init /\ [][Next]_vars

\* The steps of one request from the locked read of the engine to the
\* resolution of its transaction.
Attempt(p) ==
    \/ RunNotFound(p)
    \/ ReadRun(p)
    \/ \E i \in 1..MaxChain : SetupRaises(p, i)
    \/ Orchestrate(p)
    \/ ValidateRaises(p)
    \/ Commit(p)
    \/ CommitFails(p)
    \/ Rollback(p)

\* The set_state requests alone, arriving at one instant: no step of an
\* attempt waits for the clock.
AttemptNext ==
    \E p \in Reqs :
        \/ \E r \in Targets, t \in ProposedTypes, m \in Modes :
            StartSetState(p, r, t, m[1], m[2])
        \/ ParseState(p)
        \/ Attempt(p)

\* Fair scheduling: a request that can take a step of its attempt is not
\* left waiting forever; the rules terminate and the storage answers.
FairSpec == Init /\ [][AttemptNext]_vars /\ \A p \in Reqs : WF_vars(Attempt(p))

\* The websocket subscriptions and the history endpoint.
ApiNext ==
    \/ \E t \in TaskRuns : Enqueue(t)
    \/ \E s \in Subs :
        \/ AcceptSocket(s)
        \/ AcceptRefused(s)
        \/ \E keys \in KeySets : Subscribe(s, keys)
        \/ SubscribeDisconnect(s)
        \/ \E k \in TaskKeys : Get(s, k)
        \/ Send(s)
        \/ Disconnect(s)
        \/ ReceiveAck(s)
        \/ ReceiveOther(s)
    \/ \E i \in Intervals : StartHistory(i)
    \/ HistoryInvalid
    \/ HistoryOpenSession
    \/ HistoryQuery

ApiSpec == Init /\ [][ApiNext]_vars

(* ------------------------------------------------------------------ *)
(* Properties                                                          *)
(* ------------------------------------------------------------------ *)

\* Request p is between its locked read of run r and the resolution of its
\* transaction.
InFlight(p, r) == pc[p] \in {"sr_rules", "commit", "raise"} /\ ctx[p].run = r

\* Request p has finished the engine (returned or raised) and its
\* transaction is not resolved yet.
Finished(p) == pc[p] \in {"commit", "raise"} /\ ctx[p].run /= "none"

\* Request p is waiting at the locked read of run r.
AtLockedRead(p, r) == pc[p] = "sr_read" /\ EngineArgs(p).rid = r

RuleNames(rules) == [i \in 1..Len(rules) |-> rules[i].name]

\* C1: in every reachable state, for every run, at most one attempt is
\* between its locked read of the run and the resolution of its transaction.
C1_OneInFlightPerRun ==
    \A r \in RunIds : Cardinality({p \in Reqs : InFlight(p, r)}) <= 1

\* A second attempt on the same run waits at the locked read while the first
\* is in flight.
C1_Witness ==
    \E p, q \in Reqs : p /= q /\ InFlight(p, "r0") /\ AtLockedRead(q, "r0")

\* What the attempt of a finished request q left as the current state of its
\* run: its validated state if it committed one, the state before it
\* otherwise.
LeftBy(q) ==
    IF result[q].kind = "returned" /\ result[q].state /= Null
    THEN result[q].state
    ELSE result[q].initial

\* C2: of two attempts on the same run, the second captures as its initial
\* state the validated state the first committed, or the state before the
\* first attempt if the first committed none (rejected without a substitute,
\* told to wait, aborted or rolled back).
C2_SecondSeesFirstOutcome ==
    \A p, q \in Reqs, r \in RunIds :
        (p /= q /\ InFlight(p, r) /\ pc[q] = "done" /\ result[q].engine = r)
            => ctx[p].initial_state = LeftBy(q)

\* The second attempt has captured the state the first one committed.
C2_Witness ==
    \E p, q \in Reqs :
        /\ p /= q /\ InFlight(p, "r0") /\ pc[q] = "done" /\ result[q].engine = "r0"
        /\ result[q].kind = "returned" /\ result[q].state /= Null
        /\ result[q].state /= result[q].initial
        /\ ctx[p].initial_state = result[q].state

\* C3: create calls with the same idempotency key that return answer with
\* the same run, and the initial state is attached by at most one of them.
C3_IdempotentCreate ==
    \A p, q \in Reqs :
        (/\ p /= q
         /\ result[p].op = "create" /\ result[q].op = "create"
         /\ result[p].kind = "returned" /\ result[q].kind = "returned"
         /\ result[p].run = result[q].run)
            => ~(result[p].attached /\ result[q].attached)

\* C4: an attempt dispatches notifications at most once, and does so exactly
\* when it returns a result whose status is ACCEPT or REJECT.
C4_NotifyIffAcceptOrReject ==
    \A p \in Reqs :
        Finished(p) =>
            /\ ctx[p].notifications <= 1
            /\ ctx[p].notifications = 1 <=>
                   (ctx[p].ret = "result" /\ ctx[p].response_status \in {ACCEPT, REJECT})

\* A rejected attempt has dispatched its notifications.
C4_Witness ==
    \E p \in Reqs :
        Finished(p) /\ ctx[p].response_status = REJECT /\ ctx[p].notifications = 1

\* Some rule of the policy rejects the transition.
WouldReject(policy, from, to) ==
    \E i \in 1..Len(policy) :
        /\ from \in policy[i].from /\ to \in policy[i].to
        /\ policy[i].act \in {"reject_sub", "reject_null"}

\* C5: a forced attempt compiles its kind-specific rules from the minimal
\* policy and its global rules from the global policy; it enters the global
\* rules, and unless the storage fails it ends with ACCEPT, its state not
\* older than the state it supersedes.
C5_ForcedBypass ==
    \A p \in Reqs :
        (ctx[p].run /= "none" /\ ctx[p].force) =>
            LET from == ctx[p].initial_state.type
                to == req[p].state.type
            IN /\ ctx[p].orchestration_rules =
                      compile_transition_rules(MinimalFlowPolicy, from, to)
               /\ ctx[p].global_rules =
                      compile_transition_rules(GlobalFlowPolicy, from, to)
               /\ (Finished(p) /\ ctx[p].exc = "none") =>
                      /\ ctx[p].ret = "result"
                      /\ ctx[p].response_status = ACCEPT
                      /\ ctx[p].entered = RuleNames(Chain(ctx[p]))
                      /\ "SetRunStateTimestamp" \in
                             {ctx[p].entered[i] : i \in 1..Len(ctx[p].entered)}
                      /\ ctx[p].validated_state.type = to
                      /\ ctx[p].validated_state.ts >= ctx[p].initial_state.ts

\* A forced attempt is accepted on a transition the supplied policy rejects.
C5_Witness ==
    \E p \in Reqs :
        /\ Finished(p) /\ ctx[p].force /\ req[p].policy = "core"
        /\ WouldReject(CoreFlowPolicy, ctx[p].initial_state.type, req[p].state.type)
        /\ ctx[p].response_status = ACCEPT /\ ctx[p].ret = "result"

\* The attempt of p raises the orchestration error a rule has set.
Aborted(p) == Finished(p) /\ ctx[p].orchestration_error

\* C6: when a rule sets orchestration_error every entered rule is torn down
\* (every compiled rule, unless a later setup raises), an error is raised and
\* no result returned, nothing is written, and the run's committed row and
\* history are as before the attempt when it resolves.
C6_AbortCommitsNothing ==
    /\ [](\A p \in Reqs :
            Aborted(p) =>
                /\ pc[p] = "raise" /\ ctx[p].ret = "raised"
                /\ ctx[p].exc \in {"OrchestrationError", "StorageError"}
                /\ ctx[p].exc = "OrchestrationError" =>
                       ctx[p].entered = RuleNames(Chain(ctx[p]))
                /\ ctx[p].exited = Reverse(ctx[p].entered)
                /\ ctx[p].validated_state = Null
                /\ tx[p].state = Null
                /\ CurrentState(ctx[p].run) = ctx[p].initial_state)
    /\ [][\A p \in Reqs :
            Aborted(p) =>
                /\ runs'[ctx[p].run] = runs[ctx[p].run]
                /\ states'[ctx[p].run] = states[ctx[p].run]
                /\ pc'[p] = "done" => result'[p].kind = "raised"]_vars

\* A rule has set the error after another rule was entered.
C6_Witness ==
    \E p \in Reqs :
        /\ Aborted(p) /\ ctx[p].exc = "OrchestrationError"
        /\ Len(ctx[p].exited) >= 2

\* C7: the engine returns a result exactly with the statuses ACCEPT, REJECT
\* and WAIT and raises on ABORT: no result has the status ABORT, and an
\* attempt that is rejected or told to wait raises only if the storage fails.
C7_ResultOrRaise ==
    \A p \in Reqs :
        Finished(p) =>
            /\ ctx[p].ret \in {"result", "raised"}
            /\ ctx[p].ret = "result" => ctx[p].response_status \in {ACCEPT, REJECT, WAIT}
            /\ ctx[p].response_status = ABORT =>
                   (ctx[p].ret = "raised" /\ pc[p] = "raise")
            /\ (ctx[p].response_status \in {ACCEPT, REJECT, WAIT}
                   /\ ctx[p].exc /= "StorageError") =>
                   (ctx[p].ret = "result" /\ pc[p] = "commit")

\* One attempt has returned WAIT or raised on ABORT.
C7_Witness ==
    \E p \in Reqs :
        /\ Finished(p)
        /\ \/ ctx[p].ret = "result" /\ ctx[p].response_status = WAIT
           \/ ctx[p].ret = "raised" /\ ctx[p].response_status = ABORT

\* The engine has raised ObjectNotFoundError for request p.
NotFound(p) == pc[p] = "raise" /\ ctx[p].exc = "ObjectNotFoundError"

\* C8: an attempt on a run that does not exist raises ObjectNotFoundError
\* with no rule compiled or entered, no validation, no state written and no
\* notification, and the store is unchanged when it resolves.
C8_NotFoundDoesNothing ==
    /\ [](\A p \in Reqs :
            /\ (pc[p] = "sr_rules" \/ Finished(p)) => Visible(p, ctx[p].run)
            /\ NotFound(p) =>
                /\ ctx[p].run = "none"
                /\ ctx[p].orchestration_rules = <<>> /\ ctx[p].global_rules = <<>>
                /\ ctx[p].entered = <<>> /\ ctx[p].exited = <<>>
                /\ ctx[p].validations = 0 /\ ctx[p].notifications = 0
                /\ tx[p].state = Null
                /\ \A r \in RunIds : lock[r] /= p)
    /\ [][\A p \in Reqs :
            (NotFound(p) /\ pc'[p] = "done") =>
                /\ runs' = runs /\ states' = states
                /\ result'[p].error = "ObjectNotFoundError"]_vars

\* A set_state request on a missing run is about to fail.
C8_Witness == \E p \in Reqs : NotFound(p) /\ req[p].op = "set_state"

\* The rows of a live run are still there, with the same fields, after a step.
HistoryKept(r) ==
    (runs[r].exists /\ runs'[r].exists) =>
        /\ Len(states'[r]) >= Len(states[r])
        /\ SubSeq(states'[r], 1, Len(states[r])) = states[r]

\* C9: every run has at most one current state, the newest of its rows, and
\* no step changes a state row of a live run: the history only grows by
\* appending.
C9_HistoryImmutable ==
    /\ [](\A r \in RunIds :
            /\ Cardinality(RowsWithId(states[r], runs[r].state_id)) <= 1
            /\ states[r] /= <<>> => CurrentState(r) = states[r][Len(states[r])])
    /\ [][\A r \in RunIds : HistoryKept(r)]_vars

\* A run has a superseded state and has been updated.
C9_Witness ==
    \E r \in RunIds : runs[r].exists /\ Len(states[r]) >= 2 /\ runs[r].name = 1

\* C10 as claimed: every attempt that finds its run calls
\* validate_proposed_state exactly once.
C10_ValidatedExactlyOnce ==
    \A p \in Reqs : Finished(p) => ctx[p].validations = 1

\* C10: an attempt calls validate_proposed_state at most once, and exactly
\* once when no rule's setup raises; it writes at most one state row, the
\* validated state, and when the proposed state reaching validation is null it
\* writes none and its validated state is null.
C10_AtMostOneStateWritten ==
    /\ [](\A p \in Reqs :
            Finished(p) =>
                /\ ctx[p].validations <= 1
                /\ ctx[p].entered = RuleNames(Chain(ctx[p])) => ctx[p].validations = 1
                /\ tx[p].state \in {Null, ctx[p].validated_state}
                /\ ctx[p].proposed_state = Null =>
                       (ctx[p].validated_state = Null /\ tx[p].state = Null))
    /\ [][\A r \in RunIds : Len(states'[r]) <= Len(states[r]) + 1]_vars

\* A rule has vetoed the transition and the attempt returns no state.
C10_Witness ==
    \E p \in Reqs :
        /\ Finished(p) /\ ctx[p].ret = "result" /\ ctx[p].validations = 1
        /\ ctx[p].proposed_state = Null /\ ctx[p].validated_state = Null

\* The handler of s has dequeued a task run and neither got its
\* acknowledgement nor ended.
Holds(s) == sub[s].pc \in {"send", "receive"}

Holders(t) == {s \in Subs : Holds(s) /\ sub[s].task_run = t}

\* Task run t waits on the queue of its key.
InQueue(t) ==
    \E i \in 1..Len(task_queues[task_key(t)]) : task_queues[task_key(t)][i] = t

Acked(t) == \E s \in Subs : t \in client[s].acked

\* C11: when the connection of a handler that holds a dequeued task run
\* drops, during the send or while the acknowledgement is awaited, the task
\* run is back on the queue of its task key and the handler has ended.
C11_RequeueOnDisconnect ==
    [][\A s \in Subs :
          (Holds(s) /\ client[s].connected /\ ~client'[s].connected) =>
              /\ InQueue(sub[s].task_run)'
              /\ ~InQueue(sub[s].task_run)
              /\ sub'[s].pc = "closed"]_vars

\* Another waiter has received the task run a dropped connection left
\* unacknowledged.
C11_Witness ==
    \E s, w \in Subs :
        /\ s /= w
        /\ sub[s].pc = "closed" /\ ~client[s].connected
        /\ sub[s].task_run /= NoTask /\ sub[s].task_run \notin client[s].acked
        /\ Holds(w) /\ sub[w].task_run = sub[s].task_run

\* C12: every scheduled task run is on the queue of its key, or held by
\* exactly one handler, or acknowledged by a client; it is never on the queue
\* and held at once.
C12_NoItemLost ==
    \A t \in scheduled :
        /\ Cardinality(Holders(t)) <= 1
        /\ ~(InQueue(t) /\ Holders(t) /= {})
        /\ InQueue(t) \/ Holders(t) /= {} \/ Acked(t)

\* C13: a subscription has at most one unacknowledged task run, and its
\* handler dequeues and sends only when it has none.
C13_OneUnackedPerSubscription ==
    \A s \in Subs :
        /\ Cardinality(client[s].unacked) <= 1
        /\ sub[s].pc \in {"get", "send"} => client[s].unacked = {}
        /\ sub[s].pc = "receive" => client[s].unacked = {sub[s].task_run}

\* A handler sends its next task run after the first was acknowledged.
C13_Witness ==
    \E s \in Subs :
        /\ sub[s].pc = "send" /\ client[s].acked /= {}
        /\ sub[s].task_run \notin client[s].acked

\* C16: a history request with an interval under one second ends with 422,
\* no session opened and no query run; one with an interval of at least one
\* second opens one session and runs the query.
C16_ShortIntervalRejected ==
    /\ (hist.sessions > 0 \/ hist.queries > 0) => hist.interval >= OneSecond
    /\ hist.pc = "done" =>
          IF hist.interval < OneSecond
          THEN hist.code = 422 /\ hist.sessions = 0 /\ hist.queries = 0
          ELSE hist.code = 200 /\ hist.sessions = 1 /\ hist.queries = 1

\* A request with an interval of half a second was refused.
C16_Witness == hist.pc = "done" /\ hist.interval = 500 /\ hist.code = 422

\* The transaction of p ends in this step without committing.
RolledBack(p) ==
    /\ pc[p] \in {"commit", "raise"}
    /\ pc'[p] = "done"
    /\ result'[p].kind = "raised"

\* C14: a request holds a row lock only while its attempt is in flight, so
\* every end of the attempt releases it; a transaction that ends without
\* committing leaves the committed runs and state rows as they were; and
\* under fair scheduling every request at the locked read finishes.
C14_LockReleasedAndProgress ==
    /\ [](\A p \in Reqs, r \in RunIds : lock[r] = p => InFlight(p, r))
    /\ [][\A p \in Reqs :
            /\ pc'[p] = "done" => \A r \in RunIds : lock'[r] /= p
            /\ RolledBack(p) => (runs' = runs /\ states' = states)]_vars
    /\ \A p \in Reqs : (pc[p] = "sr_read") ~> (pc[p] = "done")

\* After a rollback released the lock of r0, another attempt holds it.
C14_Witness ==
    \E p, q \in Reqs :
        /\ p /= q
        /\ pc[q] = "done" /\ result[q].kind = "raised" /\ result[q].engine = "r0"
        /\ InFlight(p, "r0") /\ lock["r0"] = p

\* Every run but r has its committed row and state rows unchanged by the step.
OthersUnchanged(r) ==
    \A x \in RunIds \ {r} : runs'[x] = runs[x] /\ states'[x] = states[x]

\* C15: an attempt at the locked read of a run that no other attempt has in
\* flight can take the lock, whatever is in flight on other runs; and the
\* resolution of an attempt on a run leaves every other run's row and state
\* rows unchanged.
C15_PerRunContention ==
    /\ [](\A p \in Reqs, r \in RunIds :
            (/\ AtLockedRead(p, r) /\ Visible(p, r)
             /\ \A q \in Reqs \ {p} : ~InFlight(q, r))
                => CanReadForUpdate(p, r))
    /\ [][\A p \in Reqs, r \in RunIds :
            (InFlight(p, r) /\ pc'[p] /= pc[p]) => OthersUnchanged(r)]_vars

\* Attempts on two different runs are in flight at once.
C15_Witness ==
    \E p, q \in Reqs, r \in RunIds :
        p /= q /\ r /= "r0" /\ InFlight(p, "r0") /\ InFlight(q, r)

\* Request p answers an update or a delete in this step.
AnswersLifecycle(p) ==
    pc[p] = "idle" /\ pc'[p] = "done" /\ result'[p].op \in {"update", "delete"}

\* C17: an update or delete of an id that matches no run answers 404 and
\* leaves the store unchanged; on an existing id it answers 204, the delete
\* removes that run with its state rows and nothing else, the update keeps
\* the run and every state row.
C17_MissingIdNotFound ==
    [][\A p \in Reqs :
          AnswersLifecycle(p) =>
              LET r == result'[p].run
              IN IF ~runs[r].exists
                 THEN /\ result'[p].code = 404 /\ result'[p].kind = "raised"
                      /\ runs' = runs /\ states' = states
                 ELSE /\ result'[p].code = 204 /\ result'[p].kind = "returned"
                      /\ OthersUnchanged(r)
                      /\ IF result'[p].op = "delete"
                         THEN ~runs'[r].exists /\ states'[r] = <<>>
                         ELSE runs'[r].exists /\ states' = states]_vars

\* One request has deleted r0 and the other was told that r0 is not found.
C17_Witness ==
    \E p, q \in Reqs :
        /\ result[p].op = "delete" /\ result[p].run = "r0" /\ result[p].code = 204
        /\ result[q].op \in {"update", "delete"} /\ result[q].run = "r0"
        /\ result[q].code = 404
        /\ ~runs["r0"].exists

\* C18: a create call answers 201 exactly when the run it returns was
\* inserted by this call (the run bears the name of the request that
\* inserted it).
C18_CreatedIffInserted ==
    \A p \in Reqs :
        (result[p].op = "create" /\ result[p].kind = "returned") =>
            (result[p].code = 201 <=> result[p].run = p)

\* The place of a rule in the catalog that declares it.
IndexIn(catalog, rule) == CHOOSE k \in 1..Len(catalog) : catalog[k] = rule

\* chain holds exactly the rules of the catalog declared for (from, to),
\* each once, in the order the catalog declares them.
InDeclaredOrder(chain, catalog, from, to) ==
    /\ \A i \in 1..Len(chain) :
          /\ \E k \in 1..Len(catalog) : catalog[k] = chain[i]
          /\ from \in chain[i].from /\ to \in chain[i].to
    /\ \A k \in 1..Len(catalog) :
          (from \in catalog[k].from /\ to \in catalog[k].to) =>
              \E i \in 1..Len(chain) : chain[i] = catalog[k]
    /\ \A i, j \in 1..Len(chain) :
          i < j => IndexIn(catalog, chain[i]) < IndexIn(catalog, chain[j])

\* The policy, force flag and type pair of the attempt of p.
AttemptKey(p) ==
    <<EngineArgs(p).policy, EngineArgs(p).force,
      ctx[p].initial_state.type, req[p].state.type>>

CompiledNames(c) == RuleNames(c.orchestration_rules) \o RuleNames(c.global_rules)

\* C20: the rules an attempt has entered are the leading ones of its
\* kind-specific chain followed by its global chain, in compiled order, and
\* validate_proposed_state has run only if all of them were entered.
C20_KindRulesThenGlobalRules ==
    \A p \in Reqs :
        (ctx[p].run /= "none" /\ (pc[p] = "sr_rules" \/ Finished(p))) =>
            /\ Len(ctx[p].entered) <= Len(CompiledNames(ctx[p]))
            /\ ctx[p].entered = SubSeq(CompiledNames(ctx[p]), 1, Len(ctx[p].entered))
            /\ ctx[p].validations >= 1 => ctx[p].entered = CompiledNames(ctx[p])
            /\ (Finished(p) /\ ctx[p].exc /= "StorageError") =>
                   ctx[p].validations = 1

\* An attempt has entered two kind-specific and then two global rules and
\* has validated.
C20_Witness ==
    \E p \in Reqs :
        /\ Finished(p) /\ ctx[p].validations = 1
        /\ Len(ctx[p].orchestration_rules) >= 2 /\ Len(ctx[p].global_rules) >= 2
        /\ ctx[p].entered = CompiledNames(ctx[p])

\* The names of a sequence, each at most once.
NoDuplicates(seq) == \A i, j \in 1..Len(seq) : seq[i] = seq[j] => i = j

\* C21: when the engine is done, on every exit path, the scopes torn down
\* are exactly the scopes entered, each once, the last entered first; a rule
\* whose setup raised or was never reached is not torn down.
C21_TeardownInReverse ==
    \A p \in Reqs :
        (Finished(p) /\ ctx[p].ret /= "none") =>
            /\ Len(ctx[p].exited) = Len(ctx[p].entered)
            /\ NoDuplicates(ctx[p].exited)
            /\ \A i \in 1..Len(ctx[p].entered) :
                  ctx[p].exited[i] = ctx[p].entered[Len(ctx[p].entered) + 1 - i]
            /\ Len(ctx[p].entered) <= Len(CompiledNames(ctx[p]))
            /\ ctx[p].entered = SubSeq(CompiledNames(ctx[p]), 1, Len(ctx[p].entered))

\* The setup of a later rule raised after two rules were entered, and the
\* two were torn down while the compiled rules after them were not.
C21_Witness ==
    \E p \in Reqs :
        /\ Finished(p) /\ ctx[p].exc = "StorageError" /\ ctx[p].validations = 0
        /\ Len(ctx[p].exited) >= 2
        /\ Len(ctx[p].exited) < Len(CompiledNames(ctx[p]))

\* The set_state request of p commits and answers in this step.
AnswersSetState(p) ==
    /\ pc[p] = "commit" /\ req[p].op = "set_state"
    /\ pc'[p] = "done" /\ result'[p].kind = "returned"

C23_NotifyImpliesStateWritten ==
    \A p \in Reqs :
        (Finished(p) /\ ctx[p].notifications = 1) =>
            /\ ctx[p].validated_state /= Null
            /\ tx[p].state = ctx[p].validated_state
            /\ tx[p].run = ctx[p].run

\* The attempt of p is not forced and no policy was supplied.
UnforcedNoPolicy(p) ==
    req[p].op = "set_state" /\ ~EngineArgs(p).force /\ EngineArgs(p).policy = "none"

\* The context the same call compiles when it is forced, whatever policy
\* comes with it: same run, same initial and proposed state.
ForcedContext(p, policy) ==
    LET from == ctx[p].initial_state.type
        to == req[p].state.type
    IN [ctx[p] EXCEPT
           !.force = TRUE,
           !.orchestration_rules =
               compile_transition_rules(SelectPolicy(TRUE, policy), from, to),
           !.global_rules = CompileGlobalRules(from, to)]

\* C24: an attempt made with force false and no policy behaves as the same
\* attempt made with force true: the locked read leaves it with the chains
\* the forced attempt compiles (the minimal policy's rules, then the global
\* policy's), and running the rules and the validation leaves it with the
\* context, the pending state row and the outcome of the forced attempt, so
\* the result and the rows committed are the same.
C24_UnforcedNoPolicyAsForced ==
    [][\A p \in Reqs : \A policy \in {"none", "core"} :
          /\ (UnforcedNoPolicy(p) /\ pc[p] = "sr_read" /\ pc'[p] = "sr_rules") =>
                 /\ ctx'[p].orchestration_rules =
                        compile_transition_rules(MinimalFlowPolicy,
                            ctx'[p].initial_state.type, req[p].state.type)
                 /\ [ctx'[p] EXCEPT !.force = TRUE] =
                        [ForcedContext(p, policy)' EXCEPT !.force = TRUE]
          /\ (/\ UnforcedNoPolicy(p) /\ pc[p] = "sr_rules" /\ pc'[p] /= "sr_rules"
              /\ ctx'[p].exc /= "StorageError") =>
                 LET forced == Finish(Validate(EnterAll(ForcedContext(p, policy),
                                                        req[p].state.type, p, clock)))
                 IN /\ [ctx'[p] EXCEPT !.force = TRUE] = forced
                    /\ pc'[p] = AfterEngine(forced)
                    /\ tx'[p].state = forced.validated_state
                    /\ forced.validated_state /= Null => tx'[p].run = forced.run]_vars

\* Without force and without a policy, a transition that the flow policy
\* rejects is accepted.
C24_Witness ==
    \E p \in Reqs :
        /\ Finished(p) /\ UnforcedNoPolicy(p) /\ ~ctx[p].force
        /\ WouldReject(CoreFlowPolicy, ctx[p].initial_state.type, req[p].state.type)
        /\ ctx[p].response_status = ACCEPT /\ ctx[p].ret = "result"
        /\ ctx[p].validated_state = req[p].state

\* The create call of p holds the run it inserted, with a supplied state.
CreatesWithState(p) ==
    /\ req[p].op = "create" /\ req[p].state /= Null
    /\ tx[p].insert /\ pc[p] \in {"sr_read", "sr_rules", "commit", "raise"}

\* C25: a create call that inserted its run with a supplied state has the
\* engine invoked on that run, forced, always so without an idempotency key;
\* when it commits, the run is persisted together with the accepted state as
\* its only and current state; when the attach or the commit raises, the
\* step that resolves the call leaves no run and no state row behind.
C25_CreateWithStateAtomic ==
    /\ [](\A p \in Reqs :
            /\ CreatesWithState(p) =>
                   /\ req[p].attached /\ req[p].model = p
                   /\ pc[p] \in {"sr_rules", "commit", "raise"} =>
                          (ctx[p].run = p /\ ctx[p].force)
                   /\ pc[p] = "commit" =>
                          (ctx[p].ret = "result" /\ ctx[p].response_status = ACCEPT)
            /\ (/\ req[p].op = "create" /\ req[p].key = NoKey
                /\ pc[p] \in {"sr_read", "sr_rules", "commit", "raise"}) =>
                   (tx[p].insert /\ (req[p].state /= Null => req[p].attached)))
    /\ [][\A p \in Reqs :
            (CreatesWithState(p) /\ pc'[p] = "done") =>
                IF result'[p].kind = "returned"
                THEN /\ runs'[p].exists
                     /\ result'[p].status = ACCEPT
                     /\ result'[p].state.type = req[p].state.type
                     /\ states'[p] = <<result'[p].state>>
                     /\ runs'[p].state_id = result'[p].state.id
                ELSE /\ runs' = runs /\ states' = states
                     /\ ~runs'[p].exists /\ states'[p] = <<>>]_vars

\* Attaching the state raised after the run was inserted: the call resolves
\* with the error and the run is not there.
C25_Witness ==
    \E p \in Reqs :
        /\ result[p].op = "create" /\ result[p].kind = "raised"
        /\ result[p].attached /\ result[p].engine = p
        /\ result[p].error \in {"OrchestrationError", "StorageError"}
        /\ ~runs[p].exists /\ states[p] = <<>>

====
